---- MODULE Spec2Model ----
(***************************************************************************)
(* The seat-booking transaction of the flight booking system, as run by    *)
(* its two entry points:                                                    *)
(*   book         src/flask_backend.py          POST /api/book              *)
(*   book_ticket  src/flightmanagementsystem.py the "Book Ticket" UI form   *)
(* Both talk to the same MySQL database through one connection per call    *)
(* (autocommit off, so the first statement opens a transaction).  Each SQL *)
(* statement of a handler is one step, so every interleaving of the        *)
(* statements of concurrent calls is a behaviour of the model.             *)
(*                                                                         *)
(* Storage semantics (InnoDB, REPEATABLE READ):                             *)
(*   - inserted rows and updated counters stay private to the transaction  *)
(*     until COMMIT applies them together; ROLLBACK and a dropped          *)
(*     connection discard them;                                            *)
(*   - AUTO_INCREMENT values are handed out at INSERT and never reused,    *)
(*     not even after a rollback;                                          *)
(*   - SELECT ... FOR UPDATE and UPDATE read the latest committed row and  *)
(*     hold its exclusive row lock until the transaction ends; a plain     *)
(*     SELECT reads the committed row without taking or waiting for a lock.*)
(***************************************************************************)
EXTENDS Integers, FiniteSets, Sequences, TLC

\* ---------------------------------------------------------------- bounds
NumCalls   == 2     \* concurrent handler invocations
NumFlights == 2     \* rows of the flights table
MaxSeats   == 2     \* largest initial seats_available

Calls   == 1..NumCalls
Flights == 1..NumFlights

\* A value that is absent (Python None, SQL NULL, a missing JSON key).
None == "None"
\* No generated id: cursor.lastrowid is 0/None after a statement that generates none.
NoId == 0
\* A flight_id that is absent from the request (None, or JSON 0: both are falsy).
NoFlight == 0
\* A flight_id with no row in the flights table.
UnknownFlight == NumFlights + 1

\* ---------------------------------------------------------------- inputs
\* seat_number, travel_class, price of a request; price is <<>> when absent.
Payloads ==
    { [seat_number |-> "12A",  travel_class |-> "Business", price |-> <<150>>],
      [seat_number |-> None,   travel_class |-> None,       price |-> <<>>],
      [seat_number |-> "12A",  travel_class |-> "First",    price |-> <<-5>>] }

FullPayload == [seat_number |-> "12A", travel_class |-> "Business", price |-> <<150>>]

MkRequest(name, fid, p) ==
    [full_name |-> name, flight_id |-> fid, seat_number |-> p.seat_number,
     travel_class |-> p.travel_class, price |-> p.price]

\* The requests a caller may submit: every payload on flight 1, the full payload
\* on the other flights, and the three malformed or dangling requests.
Requests ==
    { MkRequest("Jane Doe", 1, p) : p \in Payloads }
      \cup { MkRequest("Jane Doe", f, FullPayload) : f \in Flights \ {1} }
      \cup { MkRequest("", 1, FullPayload),
             MkRequest("Jane Doe", NoFlight, FullPayload),
             MkRequest("Jane Doe", UnknownFlight, FullPayload) }

NoRequest == MkRequest("", NoFlight, [seat_number |-> None, travel_class |-> None, price |-> <<>>])

VARIABLES
    flights,       \* committed flights table: flight_id -> seats_available
    passengers,    \* committed rows of the passengers table
    reservations,  \* committed rows of the reservations table
    autoinc,       \* next AUTO_INCREMENT value of passengers and of reservations
    rowlock,       \* flight_id -> the call whose transaction holds the row's X lock, 0 if free
    cnx,           \* per call: "none", "open", "closed", "abandoned" (never closed by the handler)
    tx,            \* per call: the uncommitted writes of its transaction
    pc,            \* per call: the statement the handler executes next
    handler,       \* per call: "none", "book" or "book_ticket"
    req,           \* per call: the request it was invoked with
    passenger_id,  \* per call: the handler's local passenger_id
    res,           \* per call: the row fetched by the SELECT (<<>> when none)
    lastrowid,     \* per call: cursor.lastrowid
    response,      \* per call: what the handler returned
    capacity,      \* flight_id -> seats_available before any booking (history)
    listing        \* the rows last returned by GET /api/reservations

vars == <<flights, passengers, reservations, autoinc, rowlock, cnx, tx, pc, handler,
          req, passenger_id, res, lastrowid, response, capacity, listing>>

committed == <<flights, passengers, reservations>>
locals    == <<passenger_id, res, lastrowid>>

NoTx == [passengers |-> {}, reservations |-> {}, flights |-> {}]
NoResponse == [status |-> "none", id |-> NoId]
Reply(status, id) == [status |-> status, id |-> id]

Init ==
    /\ capacity \in [Flights -> 0..MaxSeats]
    /\ flights = capacity
    /\ passengers = {}
    /\ reservations = {}
    /\ autoinc = [passengers |-> 1, reservations |-> 1]
    /\ rowlock = [f \in Flights |-> 0]
    /\ cnx = [c \in Calls |-> "none"]
    /\ tx = [c \in Calls |-> NoTx]
    /\ pc = [c \in Calls |-> "idle"]
    /\ handler = [c \in Calls |-> "none"]
    /\ req = [c \in Calls |-> NoRequest]
    /\ passenger_id = [c \in Calls |-> NoId]
    /\ res = [c \in Calls |-> <<>>]
    /\ lastrowid = [c \in Calls |-> NoId]
    /\ response = [c \in Calls |-> NoResponse]
    /\ listing = {}

\* ---------------------------------------------------------------- storage
\* The row locks once the transaction of call c has ended.
Released(c) == [f \in Flights |-> IF rowlock[f] = c THEN 0 ELSE rowlock[f]]

\* CanLock under a lock on the whole flights table: any other transaction's lock,
\* on whichever row, makes c wait.
CanLockTable(c, f) == \A g \in Flights : rowlock[g] \in {0, c}

\* The exclusive lock on row f can be granted to call c: it is free or already c's.
CanLock(c, f) == rowlock[f] \in {0, c}

\* The flights table once the counters written by c's transaction are applied.
AppliedFlights(c) ==
    [f \in Flights |->
        IF \E w \in tx[c].flights : w[1] = f
        THEN (CHOOSE w \in tx[c].flights : w[1] = f)[2]
        ELSE flights[f]]

\* cnx.commit(): the transaction's writes become the committed state, together.
TxCommit(c) ==
    /\ passengers' = passengers \cup tx[c].passengers
    /\ reservations' = reservations \cup tx[c].reservations
    /\ flights' = AppliedFlights(c)
    /\ rowlock' = Released(c)
    /\ tx' = [tx EXCEPT ![c] = NoTx]

\* TxRollback on a connection with autocommit on: the passenger row inserted
\* earlier is already committed and the rollback does not remove it.
TxRollbackAutocommit(c) ==
    /\ passengers' = passengers \cup tx[c].passengers
    /\ UNCHANGED <<flights, reservations>>
    /\ rowlock' = Released(c)
    /\ tx' = [tx EXCEPT ![c] = NoTx]

\* cnx.rollback(): the transaction's writes are discarded and its locks released.
TxRollback(c) ==
    /\ UNCHANGED committed
    /\ rowlock' = Released(c)
    /\ tx' = [tx EXCEPT ![c] = NoTx]

\* INSERT INTO passengers: a row private to c's transaction, with a fresh id.
InsertPassenger(c, name) ==
    /\ tx' = [tx EXCEPT ![c].passengers =
                @ \cup {[passenger_id |-> autoinc.passengers, full_name |-> name]}]
    /\ autoinc' = [autoinc EXCEPT !.passengers = @ + 1]
    /\ lastrowid' = [lastrowid EXCEPT ![c] = autoinc.passengers]

\* INSERT INTO reservations: a row private to c's transaction, with a fresh id.
InsertReservation(c, fid, pid, seat, class, price) ==
    /\ tx' = [tx EXCEPT ![c].reservations =
                @ \cup {[reservation_id |-> autoinc.reservations, flight_id |-> fid,
                         passenger_id |-> pid, seat_number |-> seat,
                         travel_class |-> class, price |-> price]}]
    /\ autoinc' = [autoinc EXCEPT !.reservations = @ + 1]
    /\ lastrowid' = [lastrowid EXCEPT ![c] = autoinc.reservations]

\* seats_available - 1
Decrement(seats) == seats - 1

\* UpdateSeats with the WHERE clause missing: every flight row is locked and
\* decremented.
UpdateSeatsNoWhere(c, fid) ==
    /\ fid \in Flights
    /\ \A g \in Flights : CanLock(c, g)
    /\ rowlock' = [g \in Flights |-> c]
    /\ tx' = [tx EXCEPT ![c].flights =
                {<<g, Decrement(AppliedFlights(c)[g])>> : g \in Flights}]
    /\ lastrowid' = [lastrowid EXCEPT ![c] = NoId]

\* UpdateSeats writing back the value the handler read earlier, less one
\* (SET seats_available = <res[0] - 1>), instead of decrementing in the statement.
UpdateSeatsFromRead(c, fid) ==
    /\ fid \in Flights
    /\ CanLock(c, fid)
    /\ rowlock' = [rowlock EXCEPT ![fid] = c]
    /\ tx' = [tx EXCEPT ![c].flights =
                {w \in @ : w[1] # fid} \cup {<<fid, res[c][1] - 1>>}]
    /\ lastrowid' = [lastrowid EXCEPT ![c] = NoId]

\* UPDATE flights SET seats_available = seats_available - 1 WHERE flight_id = fid:
\* waits for the row's exclusive lock, then decrements the latest version of the
\* row (the transaction's own, else the committed one). It generates no id.
UpdateSeats(c, fid) ==
    /\ fid \in Flights
    /\ CanLock(c, fid)
    /\ rowlock' = [rowlock EXCEPT ![fid] = c]
    /\ tx' = [tx EXCEPT ![c].flights =
                {w \in @ : w[1] # fid} \cup {<<fid, Decrement(AppliedFlights(c)[fid])>>}]
    /\ lastrowid' = [lastrowid EXCEPT ![c] = NoId]

\* The row fetched by SELECT seats_available FROM flights WHERE flight_id = fid.
FetchSeats(fid) == IF fid \in Flights THEN <<flights[fid]>> ELSE <<>>

\* SoldOut with the comparison off by one: res[0] < 0.
SoldOutStrict(row) == row[1] < 0

\* res[0] <= 0
SoldOut(row) == row[1] <= 0

\* The handler returns: its position and its response.
Return(c, reply) ==
    /\ pc' = [pc EXCEPT ![c] = "done"]
    /\ response' = [response EXCEPT ![c] = reply]

Goto(c, label) ==
    /\ pc' = [pc EXCEPT ![c] = label]
    /\ UNCHANGED response

\* ---------------------------------------------------------------- book
\* payload.get("travel_class", "Economy")
BookTravelClass(r) == IF r.travel_class = None THEN "Economy" ELSE r.travel_class

\* float(payload.get("price", 0.0))
BookPrice(r) == IF r.price = <<>> THEN 0 ELSE r.price[1]

\* not p.get("full_name") or not flight_id
BookInvalid(r) == r.full_name = "" \/ r.flight_id = NoFlight

\* POST /api/book arrives: parse the payload, validate, open the connection.
BookRequest(c) ==
    /\ pc[c] = "idle"
    /\ \E r \in Requests :
        /\ req' = [req EXCEPT ![c] = r]
        /\ handler' = [handler EXCEPT ![c] = "book"]
        /\ IF BookInvalid(r)
           THEN /\ Return(c, Reply("ValidationError", NoId))
                /\ UNCHANGED cnx
           ELSE /\ Goto(c, "insert_passenger")
                /\ cnx' = [cnx EXCEPT ![c] = "open"]
    /\ UNCHANGED <<committed, autoinc, rowlock, tx, locals, capacity, listing>>

BookInsertPassenger(c) ==
    /\ handler[c] = "book" /\ pc[c] = "insert_passenger"
    /\ InsertPassenger(c, req[c].full_name)
    /\ passenger_id' = [passenger_id EXCEPT ![c] = lastrowid'[c]]
    /\ Goto(c, "select")
    /\ UNCHANGED <<committed, rowlock, cnx, handler, req, res, capacity, listing>>

\* BookSelectForUpdate with the FOR UPDATE clause dropped: a plain read, no lock.
BookSelectUnlocked(c) ==
    /\ handler[c] = "book" /\ pc[c] = "select"
    /\ LET row == FetchSeats(req[c].flight_id)
       IN /\ res' = [res EXCEPT ![c] = row]
          /\ lastrowid' = [lastrowid EXCEPT ![c] = NoId]
          /\ IF row = <<>>
             THEN /\ TxRollback(c)
                  /\ cnx' = [cnx EXCEPT ![c] = "closed"]
                  /\ Return(c, Reply("NotFound", NoId))
             ELSE IF row[1] <= 0
             THEN /\ TxRollback(c)
                  /\ cnx' = [cnx EXCEPT ![c] = "closed"]
                  /\ Return(c, Reply("SoldOut", NoId))
             ELSE /\ Goto(c, "insert_reservation")
                  /\ UNCHANGED <<committed, rowlock, tx, cnx>>
    /\ UNCHANGED <<autoinc, handler, req, passenger_id, capacity, listing>>

\* SELECT ... FOR UPDATE, fetchone, and the two early returns. The statement waits
\* while another transaction holds the row's lock.
BookSelectForUpdate(c) ==
    /\ handler[c] = "book" /\ pc[c] = "select"
    /\ LET fid == req[c].flight_id
           row == FetchSeats(fid)
       IN /\ fid \in Flights => CanLock(c, fid)
          /\ res' = [res EXCEPT ![c] = row]
          /\ lastrowid' = [lastrowid EXCEPT ![c] = NoId]
          /\ IF row = <<>>
             THEN /\ TxRollback(c)
                  /\ cnx' = [cnx EXCEPT ![c] = "closed"]
                  /\ Return(c, Reply("NotFound", NoId))
             ELSE IF SoldOut(row)
             THEN /\ TxRollback(c)
                  /\ cnx' = [cnx EXCEPT ![c] = "closed"]
                  /\ Return(c, Reply("SoldOut", NoId))
             ELSE /\ rowlock' = [rowlock EXCEPT ![fid] = c]
                  /\ Goto(c, "insert_reservation")
                  /\ UNCHANGED <<committed, tx, cnx>>
    /\ UNCHANGED <<autoinc, handler, req, passenger_id, capacity, listing>>

\* BookInsertReservation passing cur.lastrowid, which the SELECT has reset, where
\* the saved passenger_id belongs.
BookInsertReservationLastRowId(c) ==
    /\ handler[c] = "book" /\ pc[c] = "insert_reservation"
    /\ InsertReservation(c, req[c].flight_id, lastrowid[c], req[c].seat_number,
                         BookTravelClass(req[c]), BookPrice(req[c]))
    /\ Goto(c, "update")
    /\ UNCHANGED <<committed, rowlock, cnx, handler, req, passenger_id, res, capacity, listing>>

BookInsertReservation(c) ==
    /\ handler[c] = "book" /\ pc[c] = "insert_reservation"
    /\ InsertReservation(c, req[c].flight_id, passenger_id[c], req[c].seat_number,
                         BookTravelClass(req[c]), BookPrice(req[c]))
    /\ Goto(c, "update")
    /\ UNCHANGED <<committed, rowlock, cnx, handler, req, passenger_id, res, capacity, listing>>

BookUpdate(c) ==
    /\ handler[c] = "book" /\ pc[c] = "update"
    /\ UpdateSeats(c, req[c].flight_id)
    /\ Goto(c, "commit")
    /\ UNCHANGED <<committed, autoinc, cnx, handler, req, passenger_id, res, capacity, listing>>

\* cnx.commit(); cnx.close(); return {"status": "booked"}: no identifier is returned.
BookCommit(c) ==
    /\ handler[c] = "book" /\ pc[c] = "commit"
    /\ TxCommit(c)
    /\ cnx' = [cnx EXCEPT ![c] = "closed"]
    /\ Return(c, Reply("booked", NoId))
    /\ UNCHANGED <<autoinc, handler, req, locals, capacity, listing>>

\* The statements of the try block: any of them may raise a storage error.
Statements == {"insert_passenger", "select", "insert_reservation", "update", "commit"}

\* BookException with cnx.commit() where cnx.rollback() belongs.
BookExceptionCommits(c) ==
    /\ handler[c] = "book" /\ pc[c] \in Statements
    /\ TxCommit(c)
    /\ cnx' = [cnx EXCEPT ![c] = "closed"]
    /\ Return(c, Reply("StorageError", NoId))
    /\ UNCHANGED <<autoinc, handler, req, locals, capacity, listing>>

\* except Exception: cnx.rollback(); cnx.close(); return 500. The statement that
\* raised had no effect.
BookException(c) ==
    /\ handler[c] = "book" /\ pc[c] \in Statements
    /\ TxRollback(c)
    /\ cnx' = [cnx EXCEPT ![c] = "closed"]
    /\ Return(c, Reply("StorageError", NoId))
    /\ UNCHANGED <<autoinc, handler, req, locals, capacity, listing>>

\* ---------------------------------------------------------------- book_ticket
\* float(price) if price else 0.0
TicketPrice(r) == IF r.price = <<>> \/ r.price[1] = 0 THEN 0 ELSE r.price[1]

\* The form is submitted: the handler connects. Nothing is validated.
TicketRequest(c) ==
    /\ pc[c] = "idle"
    /\ \E r \in Requests : req' = [req EXCEPT ![c] = r]
    /\ handler' = [handler EXCEPT ![c] = "book_ticket"]
    /\ cnx' = [cnx EXCEPT ![c] = "open"]
    /\ Goto(c, "insert_passenger")
    /\ UNCHANGED <<committed, autoinc, rowlock, tx, locals, capacity, listing>>

TicketInsertPassenger(c) ==
    /\ handler[c] = "book_ticket" /\ pc[c] = "insert_passenger"
    /\ InsertPassenger(c, req[c].full_name)
    /\ passenger_id' = [passenger_id EXCEPT ![c] = lastrowid'[c]]
    /\ Goto(c, "select")
    /\ UNCHANGED <<committed, rowlock, cnx, handler, req, res, capacity, listing>>

\* The plain SELECT, fetchone, and the two early returns. The read takes no lock
\* and waits for none.
TicketSelect(c) ==
    /\ handler[c] = "book_ticket" /\ pc[c] = "select"
    /\ LET row == FetchSeats(req[c].flight_id)
       IN /\ res' = [res EXCEPT ![c] = row]
          /\ lastrowid' = [lastrowid EXCEPT ![c] = NoId]
          /\ IF row = <<>>
             THEN /\ TxRollback(c)
                  /\ cnx' = [cnx EXCEPT ![c] = "closed"]
                  /\ Return(c, Reply("NotFound", NoId))
             ELSE IF SoldOut(row)
             THEN /\ TxRollback(c)
                  /\ cnx' = [cnx EXCEPT ![c] = "closed"]
                  /\ Return(c, Reply("SoldOut", NoId))
             ELSE /\ Goto(c, "insert_reservation")
                  /\ UNCHANGED <<committed, rowlock, tx, cnx>>
    /\ UNCHANGED <<autoinc, handler, req, passenger_id, capacity, listing>>

TicketInsertReservation(c) ==
    /\ handler[c] = "book_ticket" /\ pc[c] = "insert_reservation"
    /\ InsertReservation(c, req[c].flight_id, passenger_id[c], req[c].seat_number,
                         req[c].travel_class, TicketPrice(req[c]))
    /\ Goto(c, "update")
    /\ UNCHANGED <<committed, rowlock, cnx, handler, req, passenger_id, res, capacity, listing>>

TicketUpdate(c) ==
    /\ handler[c] = "book_ticket" /\ pc[c] = "update"
    /\ UpdateSeats(c, req[c].flight_id)
    /\ Goto(c, "commit")
    /\ UNCHANGED <<committed, autoinc, cnx, handler, req, passenger_id, res, capacity, listing>>

\* cnx.commit(); cnx.close(); return "... Reservation ID: {cur.lastrowid}": the
\* cursor's lastrowid is the one left by the UPDATE.
TicketCommit(c) ==
    /\ handler[c] = "book_ticket" /\ pc[c] = "commit"
    /\ TxCommit(c)
    /\ cnx' = [cnx EXCEPT ![c] = "closed"]
    /\ Return(c, Reply("booked", lastrowid[c]))
    /\ UNCHANGED <<autoinc, handler, req, locals, capacity, listing>>

\* TicketException on a connection that stays referenced after the return (kept
\* in a module-level variable or a pool): it is never reclaimed.
TicketExceptionKeepsConnection(c) ==
    /\ handler[c] = "book_ticket" /\ pc[c] \in Statements
    /\ Return(c, Reply("StorageError", NoId))
    /\ UNCHANGED <<committed, autoinc, rowlock, cnx, tx, handler, req, locals, capacity, listing>>

\* except Exception: return "Error: ...". The handler neither rolls back nor closes:
\* the transaction stays open, with its locks, on a connection nobody holds.
TicketException(c) ==
    /\ handler[c] = "book_ticket" /\ pc[c] \in Statements
    /\ cnx' = [cnx EXCEPT ![c] = "abandoned"]
    /\ Return(c, Reply("StorageError", NoId))
    /\ UNCHANGED <<committed, autoinc, rowlock, tx, handler, req, locals, capacity, listing>>

\* The abandoned connection object is reclaimed and its socket closed; the server
\* rolls the open transaction back.
ConnectionDropped(c) ==
    /\ cnx[c] = "abandoned"
    /\ TxRollback(c)
    /\ cnx' = [cnx EXCEPT ![c] = "closed"]
    /\ UNCHANGED <<autoinc, pc, handler, req, locals, response, capacity, listing>>

\* ---------------------------------------------------------------- reservations
\* One row of the listing: r.* with p.full_name AS passenger_name.
ListedRow(r, p) ==
    [reservation_id |-> r.reservation_id, flight_id |-> r.flight_id,
     passenger_id |-> r.passenger_id, seat_number |-> r.seat_number,
     travel_class |-> r.travel_class, price |-> r.price,
     passenger_name |-> p.full_name]

\* reservations JOIN passengers JOIN flights over the given tables.
JoinRows(rs, ps) ==
    {ListedRow(r, p) : <<r, p>> \in
        {rp \in rs \X ps : rp[1].passenger_id = rp[2].passenger_id
                           /\ rp[1].flight_id \in Flights}}

\* ListReservations reading at READ UNCOMMITTED: rows of open transactions too.
ListReservationsDirty ==
    /\ listing' = JoinRows(reservations \cup UNION {tx[c].reservations : c \in Calls},
                           passengers \cup UNION {tx[c].passengers : c \in Calls})
    /\ UNCHANGED <<committed, autoinc, rowlock, cnx, tx, pc, handler, req, locals,
                   response, capacity>>

\* GET /api/reservations: a consistent read on its own connection, which sees the
\* committed rows only.
ListReservations ==
    /\ listing' = JoinRows(reservations, passengers)
    /\ UNCHANGED <<committed, autoinc, rowlock, cnx, tx, pc, handler, req, locals,
                   response, capacity>>

\* ---------------------------------------------------------------- specification
CallNext(c) ==
        \/ BookRequest(c)
        \/ BookInsertPassenger(c)
        \/ BookSelectForUpdate(c)
        \/ BookInsertReservation(c)
        \/ BookUpdate(c)
        \/ BookCommit(c)
        \/ BookException(c)
        \/ TicketRequest(c)
        \/ TicketInsertPassenger(c)
        \/ TicketSelect(c)
        \/ TicketInsertReservation(c)
        \/ TicketUpdate(c)
        \/ TicketCommit(c)
        \/ TicketException(c)
        \/ ConnectionDropped(c)

Next ==
    \/ \E c \in Calls : CallNext(c)
    \/ ListReservations

Spec == Init /\ [][Next]_vars

\* The statements of call c that raise no error: a handler that is running keeps
\* running, and a statement waiting for a row lock runs once the lock is free.
Proceed(c) ==
    \/ BookInsertPassenger(c)
    \/ BookSelectForUpdate(c)
    \/ BookInsertReservation(c)
    \/ BookUpdate(c)
    \/ BookCommit(c)
    \/ TicketInsertPassenger(c)
    \/ TicketSelect(c)
    \/ TicketInsertReservation(c)
    \/ TicketUpdate(c)
    \/ TicketCommit(c)

\* Requests may or may not arrive and storage errors may or may not occur; a
\* started handler proceeds, and a connection dropped by the handler on return is
\* reclaimed (its last reference is the handler's local variable).
FairSpec ==
    /\ Spec
    /\ \A c \in Calls : WF_vars(Proceed(c)) /\ WF_vars(ConnectionDropped(c))

\* ---------------------------------------------------------------- properties
Booked(c)  == response[c].status = "booked"
Failed(c)  == response[c].status = "StorageError"
Done(c)    == pc[c] = "done"
ReservationsOf(f) == {r \in reservations : r.flight_id = f}
\* Call c was invoked through handler h for flight f.
Via(c, h, f) == handler[c] = h /\ req[c].flight_id = f

\* C1: through POST /api/book, the number of calls that commit a reservation on a
\* flight never exceeds the seats_available the flight started with, in any
\* interleaving of the calls' statements.
C1_NoOversellHttp ==
    \A f \in Flights :
        Cardinality({c \in Calls : Via(c, "book", f) /\ Booked(c)}) <= capacity[f]

\* C1 witness: a flight that started with one seat, one book call committed on it
\* and a second book call on it was refused.
C1_Witness ==
    \E f \in Flights : \E c1, c2 \in Calls :
        /\ capacity[f] = 1
        /\ Via(c1, "book", f) /\ Booked(c1)
        /\ Via(c2, "book", f) /\ response[c2].status = "SoldOut"

\* C2: through book and book_ticket alike, no flight's committed seats_available
\* is ever negative.
C2_SeatsNeverNegative == \A f \in Flights : flights[f] >= 0

\* Calls c1 and c2 are the only ones that opened a transaction for flight f; both
\* came through POST /api/book with a valid request and have returned, neither with
\* a storage error.
LastSeatRace(f, c1, c2) ==
    /\ c1 # c2
    /\ capacity[f] = 1
    /\ \A c \in {c1, c2} : Via(c, "book", f) /\ ~BookInvalid(req[c]) /\ Done(c) /\ ~Failed(c)
    /\ \A c \in Calls \ {c1, c2} : cnx[c] = "none" \/ req[c].flight_id # f

\* C3: two concurrent book calls for a flight's last seat: exactly one is booked,
\* the other is told the flight is sold out, the counter ends at 0 and one
\* reservation row exists for the flight.
C3_LastSeat ==
    \A f \in Flights : \A c1, c2 \in Calls :
        LastSeatRace(f, c1, c2) =>
            /\ \/ Booked(c1) /\ response[c2].status = "SoldOut"
               \/ Booked(c2) /\ response[c1].status = "SoldOut"
            /\ flights[f] = 0
            /\ Cardinality(ReservationsOf(f)) = 1

\* C3 witness: the race has been run, and the loser had inserted its passenger
\* before the winner committed.
C3_Witness ==
    \E f \in Flights : \E c1, c2 \in Calls :
        /\ LastSeatRace(f, c1, c2)
        /\ Booked(c1)
        /\ passenger_id[c2] < passenger_id[c1]

\* C4: in every committed state, a flight's seats_available plus the number of its
\* reservation rows equals the seats_available it started with.
C4_Conservation ==
    \A f \in Flights : flights[f] + Cardinality(ReservationsOf(f)) = capacity[f]

\* C4 witness: two bookings committed on one flight, one through each entry point.
C4_Witness ==
    \E f \in Flights : \E c1, c2 \in Calls :
        /\ Via(c1, "book", f) /\ Booked(c1)
        /\ Via(c2, "book_ticket", f) /\ Booked(c2)

\* The committed rows that call c inserted: its passenger and the reservations
\* that reference it.
PassengersOf(c)   == {p \in passengers : p.passenger_id = passenger_id[c]}
ReservationsBy(c) == {r \in reservations : r.passenger_id = passenger_id[c]}
NoRowsOf(c) == PassengersOf(c) = {} /\ ReservationsBy(c) = {}

\* This step is taken by call c or by its connection.
StepOf(c) == pc'[c] # pc[c] \/ cnx'[c] # cnx[c]

\* No step of a call, other than the commit that makes it booked, changes the
\* committed tables.
OnlyCommitWrites ==
    \A c \in Calls : (StepOf(c) /\ ~Booked(c)') => committed' = committed

\* C5: a call that fails with a storage error, at whichever statement, leaves no
\* passenger row, no reservation row and no change of any counter in the committed
\* state: none of its steps, up to and after the failure, writes the committed
\* tables, through book and through book_ticket.
C5_AtomicOnFailure ==
    /\ [](\A c \in Calls : Failed(c) => NoRowsOf(c))
    /\ [][OnlyCommitWrites]_vars

\* C5 witness: a book call failed after its SELECT, and a book_ticket call failed
\* at its commit, with its decrement still pending on the abandoned connection.
C5_Witness ==
    \E c1, c2 \in Calls :
        /\ handler[c1] = "book" /\ Failed(c1)
        /\ passenger_id[c1] # NoId /\ res[c1] # <<>>
        /\ handler[c2] = "book_ticket" /\ Failed(c2)
        /\ tx[c2].flights # {}

\* C6: committed passengers and reservations pair up one to one, each reservation
\* belongs to the booked call whose passenger it references and to an existing
\* flight, and each flight's counter has dropped by exactly one per reservation.
C6_Paired ==
    /\ \A p \in passengers :
          Cardinality({r \in reservations : r.passenger_id = p.passenger_id}) = 1
    /\ \A r \in reservations :
          /\ r.flight_id \in Flights
          /\ Cardinality({p \in passengers : p.passenger_id = r.passenger_id}) = 1
          /\ \E c \in Calls : /\ Booked(c)
                              /\ passenger_id[c] = r.passenger_id
                              /\ req[c].flight_id = r.flight_id
    /\ \A c \in Calls : Booked(c) <=> PassengersOf(c) # {}
    /\ \A f \in Flights : capacity[f] - flights[f] = Cardinality(ReservationsOf(f))

\* C6 witness: one call is booked while another, which had inserted its passenger,
\* was refused.
C6_Witness ==
    \E c1, c2 \in Calls :
        /\ Booked(c1) /\ ReservationsBy(c1) # {}
        /\ response[c2].status \in {"SoldOut", "NotFound"}
        /\ passenger_id[c2] # NoId

\* A request with an empty or absent full_name, or an absent flight_id.
MissingRequired(r) == r.full_name = "" \/ r.flight_id = NoFlight

\* C7: a request with an empty or absent full_name or an absent flight_id never
\* inserts a passenger, not even in a transaction rolled back later, and is
\* answered with a validation error, through book and through book_ticket.
C7_ValidationNoWrite ==
    \A c \in Calls :
        (handler[c] # "none" /\ MissingRequired(req[c])) =>
            /\ passenger_id[c] = NoId
            /\ tx[c] = NoTx
            /\ Done(c) => response[c].status = "ValidationError"

Refused(c) == response[c].status \in {"NotFound", "SoldOut"}

\* The step leaves the SELECT of call c without a storage error.
SelectStep(c) == pc[c] = "select" /\ pc'[c] # "select" /\ ~Failed(c)'

\* C8: a call whose SELECT finds no flight row returns not-found, one that reads
\* seats_available <= 0 returns sold-out; either way the committed tables are as
\* the call found them and the passenger it inserted is not among them.
C8_RefusedLeavesState ==
    /\ [](\A c \in Calls : Refused(c) =>
            /\ NoRowsOf(c)
            /\ tx[c] = NoTx
            /\ response[c].status = "NotFound" => res[c] = <<>>
            /\ response[c].status = "SoldOut" => (res[c] # <<>> /\ res[c][1] <= 0))
    /\ [][\A c \in Calls : SelectStep(c) =>
            /\ req[c].flight_id \notin Flights =>
                  (response'[c].status = "NotFound" /\ committed' = committed)
            /\ (req[c].flight_id \in Flights /\ flights[req[c].flight_id] <= 0) =>
                  (response'[c].status = "SoldOut" /\ committed' = committed)]_vars
    /\ [][OnlyCommitWrites]_vars

\* C8 witness: a book call was refused for an unknown flight and a book_ticket call
\* for a sold-out one, each after inserting its passenger.
C8_Witness ==
    \E c1, c2 \in Calls :
        /\ handler[c1] = "book" /\ response[c1].status = "NotFound"
        /\ handler[c2] = "book_ticket" /\ response[c2].status = "SoldOut"
        /\ passenger_id[c1] # NoId /\ passenger_id[c2] # NoId

\* C9: a booked call reports the generated id of the reservation row it inserted.
C9_ReturnsReservationId ==
    \A c \in Calls :
        Booked(c) => \E r \in ReservationsBy(c) : response[c].id = r.reservation_id

\* The travel class a request asks for: Economy when it names none.
RequestedClass(r) == IF r.travel_class = None THEN "Economy" ELSE r.travel_class

\* C10: a booked call has stored exactly one reservation row, with the request's
\* flight_id, seat_number, travel_class (Economy when unspecified) and price, and
\* the id of the passenger the call inserted.
C10_StoresRequest ==
    \A c \in Calls :
        Booked(c) =>
            /\ Cardinality(ReservationsBy(c)) = 1
            /\ PassengersOf(c) = {[passenger_id |-> passenger_id[c],
                                   full_name |-> req[c].full_name]}
            /\ \A r \in ReservationsBy(c) :
                  /\ r.flight_id = req[c].flight_id
                  /\ r.seat_number = req[c].seat_number
                  /\ r.travel_class = RequestedClass(req[c])
                  /\ req[c].price # <<>> => r.price = req[c].price[1]

\* C11: every committed reservation row has price >= 0; a booking whose price is
\* unspecified or negative stores price 0.
C11_PriceNonNegative ==
    /\ \A r \in reservations : r.price >= 0
    /\ \A c \in Calls : \A r \in ReservationsBy(c) :
          (req[c].price = <<>> \/ req[c].price[1] < 0) => r.price = 0

\* The rows still private to open transactions.
PendingReservations == UNION {tx[c].reservations : c \in Calls}
PendingPassengers   == UNION {tx[c].passengers : c \in Calls}

\* C12: until a booking call commits, neither the reservations listing nor another
\* booking call sees any of its writes: a listing shows committed reservations
\* only, each with its committed passenger, and as many of them per flight as the
\* committed counter has dropped; a booking call's SELECT reads the committed
\* counter.
C12_Isolation ==
    /\ [](\A row \in listing :
            /\ \E r \in reservations : r.reservation_id = row.reservation_id
            /\ \E p \in passengers : /\ p.passenger_id = row.passenger_id
                                     /\ p.full_name = row.passenger_name)
    /\ [][listing' # listing =>
            /\ \A r \in PendingReservations :
                  \A row \in listing' : row.reservation_id # r.reservation_id
            /\ \A p \in PendingPassengers :
                  \A row \in listing' : row.passenger_id # p.passenger_id
            /\ \A f \in Flights :
                  Cardinality({row \in listing' : row.flight_id = f})
                      = capacity[f] - flights[f]]_vars
    /\ [][\A c \in Calls : (SelectStep(c) /\ req[c].flight_id \in Flights) =>
            res'[c] = <<flights[req[c].flight_id]>>]_vars

\* C12 witness: a listing was returned while a call's reservation was pending: it
\* shows a reservation inserted later and not the pending one.
C12_Witness ==
    \E c \in Calls : \E r \in tx[c].reservations : \E row \in listing :
        /\ row.reservation_id > r.reservation_id
        /\ tx[c].passengers # {} /\ tx[c].flights # {}

\* Another call holds the lock on the row of the flight call c books.
WaitsForSameFlight(c) ==
    /\ req[c].flight_id \in Flights
    /\ \E d \in Calls \ {c} : /\ rowlock[req[c].flight_id] = d
                              /\ req[d].flight_id = req[c].flight_id

\* C13: a book call is never kept from its next statement by a lock another call
\* holds on a different flight: each of its statements can run, except that its
\* SELECT ... FOR UPDATE waits while another call on the same flight holds that
\* flight's row lock.
C13_PerFlightLock ==
    \A c \in Calls : handler[c] = "book" =>
        /\ pc[c] = "insert_passenger" => ENABLED BookInsertPassenger(c)
        /\ pc[c] = "select" => (ENABLED BookSelectForUpdate(c) \/ WaitsForSameFlight(c))
        /\ pc[c] = "insert_reservation" => ENABLED BookInsertReservation(c)
        /\ pc[c] = "update" => ENABLED BookUpdate(c)
        /\ pc[c] = "commit" => ENABLED BookCommit(c)

\* C13 witness: a book call holds flight A's row lock, uncommitted, while a book
\* call on another flight, whose reservation was inserted after the first call's,
\* has decremented its own flight and committed.
C13_Witness ==
    \E c1, c2 \in Calls :
        /\ handler[c1] = "book" /\ handler[c2] = "book"
        /\ req[c1].flight_id \in Flights /\ req[c2].flight_id # req[c1].flight_id
        /\ rowlock[req[c1].flight_id] = c1 /\ pc[c1] = "commit"
        /\ Booked(c2)
        /\ \E r1 \in tx[c1].reservations : \E r2 \in ReservationsBy(c2) :
              r2.reservation_id > r1.reservation_id

\* C14: when a booking call's decrement is applied, the seats_available it had
\* read and checked is still the committed value: the counter it writes is the
\* value it read, less one.
C14_NoStaleRead ==
    \A c \in Calls : pc[c] = "commit" =>
        \A w \in tx[c].flights : w[2] = res[c][1] - 1

\* The call returned an error after its transaction had started.
ErrorAfterStart(c) ==
    /\ Done(c)
    /\ response[c].status \in {"NotFound", "SoldOut", "StorageError"}

\* C15: a booking call that returns not-found, sold-out or a storage error has
\* rolled its transaction back and closed its connection by the time it returns:
\* no pending write, no row lock and no open connection outlives the call.
C15_RolledBackOnReturn ==
    \A c \in Calls : ErrorAfterStart(c) =>
        /\ cnx[c] = "closed"
        /\ tx[c] = NoTx
        /\ \A f \in Flights : rowlock[f] # c

C17_Frame ==
    /\ [][\A c \in Calls : (Booked(c)' /\ ~Booked(c)) =>
            /\ req[c].flight_id \in Flights
            /\ flights' = [flights EXCEPT ![req[c].flight_id] = @ - 1]
            /\ Cardinality(passengers' \ passengers) = 1
            /\ Cardinality(reservations' \ reservations) = 1]_vars
    /\ [][/\ \A f \in Flights : flights'[f] <= flights[f]
          /\ passengers \subseteq passengers'
          /\ reservations \subseteq reservations']_vars

\* C17 witness: after an earlier booking on another flight, a call is booked on
\* its flight; each of the two flights is one seat below its capacity and the
\* earlier rows are still there.
C17_Witness ==
    \E c1, c2 \in Calls :
        /\ Booked(c1) /\ Booked(c2)
        /\ req[c1].flight_id # req[c2].flight_id
        /\ passenger_id[c1] < passenger_id[c2]
        /\ PassengersOf(c1) # {} /\ ReservationsBy(c1) # {}
        /\ \A c \in {c1, c2} :
              flights[req[c].flight_id] = capacity[req[c].flight_id] - 1

====
